---- MODULE Spec2Model ----
(***************************************************************************)
(* Model of drive.py: keyboard teleoperation of a Robomaster EP.           *)
(*                                                                         *)
(*  - Controller (on_press / on_release / send_command) is the keyboard    *)
(*    controller; pynput calls its handlers one at a time from the         *)
(*    listener thread, each handler runs under self._mu from entry to      *)
(*    exit, so a handler is one atomic action.  SpecLock takes the entry   *)
(*    into the lock as a step of its own, to state what the lock does.     *)
(*  - handle_event is one poll cycle of the event router, run in a loop    *)
(*    by a separate worker process.  Its two receives wait up to the       *)
(*    timeout each, and the listeners put while it waits, so a cycle is    *)
(*    two steps: the receive on push_queue, the receive on event_queue.    *)
(*  - Every call on the Commander may raise (transport failure); the       *)
(*    outcome is an input of the action that makes the call.               *)
(*                                                                         *)
(* Specifications: SpecKeyboard (the controller alone), SpecRouter (the    *)
(* router and its channels alone), Spec (the whole program), SpecHit (the  *)
(* controller next to the router, events only), SpecScenario (a fixed      *)
(* sequence of key edges), SpecLock (the lock taken in a step of its own)  *)
(* and SpecFair (the router under weak fairness, one ArmorHit followed).   *)
(*                                                                         *)
(* Speeds are kept as integers: chassis speeds in units of 0.1 m/s, so     *)
(* that UNIT_DELTA_SPEED (0.2) is 2; gimbal speeds in degrees/s.  The      *)
(* float products gear * 0.2 for gear in 1..5 are pairwise distinct and    *)
(* the code only assigns, negates and compares them, so the scaling keeps  *)
(* every comparison the code makes.                                        *)
(***************************************************************************)
EXTENDS Integers, Sequences, FiniteSets, TLC

VARIABLES
    gear,               \* Controller.gear
    delta_v,            \* Controller.delta_v
    delta_d,            \* Controller.delta_d
    v,                  \* Controller.v                 <<x, y>>
    previous_v,         \* Controller.previous_v
    v_gimbal,           \* Controller.v_gimbal          <<pitch, yaw>>
    previous_v_gimbal,  \* Controller.previous_v_gimbal
    ctrl_pressed,       \* Controller.ctrl_pressed
    listener,           \* keyboard.Listener of control(): "running", "stopped", "raised"
    sent,               \* Commander calls made by the most recent key handler, in order
    lastChassis,        \* history: the last chassis_speed call of the controller, or NoCmd
    lastGimbal,         \* history: the last gimbal_speed call of the controller, or NoCmd
    nkeys,              \* number of key edges handled so far
    mu,                 \* Controller._mu: <<>> when free, else the handler holding it
    push_queue,         \* telemetry channel
    event_queue,        \* event channel
    router,             \* the worker looping over handle_event: "running", "raised"
    rpc,                \* the receive the router's cycle comes to next: "push", "event"
    polled,             \* receive attempts of the most recent poll cycle, in order
    logged,             \* logger.info calls of the most recent poll cycle, in order
    rsent,              \* Commander calls made by the most recent poll cycle
    wireChassis,        \* history: the last chassis_speed call of either process, or NoCmd
    followed,           \* history: position in event_queue of the ArmorHit followed, 0 if none
    ahead,              \* history: events before the followed ArmorHit when it was put
    cycles,             \* history: receives on event_queue since the followed ArmorHit was put
    begun,              \* history: poll cycles begun since the followed ArmorHit was put
    incycle,            \* history: a call of handle_event is before its event receive (SpecFair)
    during              \* history: the followed ArmorHit was put while incycle held

ctlvars == <<gear, delta_v, delta_d, v, previous_v, v_gimbal, previous_v_gimbal, ctrl_pressed>>
kbdvars == <<ctlvars, listener, sent, lastChassis, lastGimbal, nkeys, mu>>
rtrvars == <<router, rpc, polled, logged, rsent>>
hitvars == <<followed, ahead, cycles, begun, incycle, during>>
vars == <<kbdvars, push_queue, event_queue, rtrvars, wireChassis, hitvars>>

----------------------------------------------------------------------------
(* Program constants *)

QUEUE_SIZE == 10
UNIT_DELTA_SPEED == 2
UNIT_DELTA_DEGREE == 20

(* Bounds of the model *)

\* Key edges handled in SpecKeyboard
MaxKeyEvents == 4
\* Key edges handled in SpecHit and in SpecLock
MaxJointKeyEvents == 2
\* Key edges handled in Spec
MaxProgramKeyEvents == 1
\* Messages waiting in a channel in SpecRouter; events of every kind
\* waiting in SpecFair
MaxPending == 2
\* Messages waiting in a channel in Spec, SpecHit and SpecScenario
MaxJointPending == 1

----------------------------------------------------------------------------
(* Keys delivered by the keyboard listener.  "x" stands for any key the    *)
(* handlers do not name; "c" without ctrl falls in the same class.         *)

GearKeys == {"1", "2", "3", "4", "5"}
ChassisKeys == {"w", "s", "a", "d"}
GimbalKeys == {"up", "down", "left", "right"}
Keys == ChassisKeys \cup GimbalKeys \cup GearKeys \cup {"ctrl", "c", "space", "x"}

\* int(key.char) for a gear key
GearOf(key) ==
    CASE key = "1" -> 1 [] key = "2" -> 2 [] key = "3" -> 3
      [] key = "4" -> 4 [] key = "5" -> 5

Gears == 1..5

\* Messages of the two channels
PushMsgs == {"push"}
Events == {"ArmorHit", "Sound", "Other"}
Empty == "empty"

\* Commander calls
chassis_speed(x, y, z) == [op |-> "chassis_speed", args |-> <<x, y, z>>]
gimbal_speed(p, y) == [op |-> "gimbal_speed", args |-> <<p, y>>]
blaster_fire == [op |-> "blaster_fire", args |-> <<>>]
NoCmd == [op |-> "none", args |-> <<>>]

\* Which call, if made, raises a transport error: on_press can make all
\* three calls, on_release the two of send_command, handle_event one
Failures == {"none", "chassis_speed", "gimbal_speed", "blaster_fire"}
ReleaseFailures == {"none", "chassis_speed", "gimbal_speed"}
RouterFailures == {"none", "chassis_speed"}

----------------------------------------------------------------------------
(* Controller *)

\* PressV as it would be if a press added to the component (stacking)
PressV_stacking(key) ==
    CASE key = "w" -> [v EXCEPT ![1] = v[1] + delta_v]
      [] key = "s" -> [v EXCEPT ![1] = v[1] - delta_v]
      [] key = "a" -> [v EXCEPT ![2] = v[2] - delta_v]
      [] key = "d" -> [v EXCEPT ![2] = v[2] + delta_v]
      [] OTHER -> v

\* The assignment chain of on_press (lines 84-99): the new v
PressV(key) ==
    CASE key = "w" -> [v EXCEPT ![1] = delta_v]
      [] key = "s" -> [v EXCEPT ![1] = -delta_v]
      [] key = "a" -> [v EXCEPT ![2] = -delta_v]
      [] key = "d" -> [v EXCEPT ![2] = delta_v]
      [] OTHER -> v

\* PressVGimbal as it would be if the gimbal keys used the chassis step
PressVGimbal_chassisunit(key) ==
    CASE key = "up" -> [v_gimbal EXCEPT ![1] = delta_v]
      [] key = "down" -> [v_gimbal EXCEPT ![1] = -delta_v]
      [] key = "left" -> [v_gimbal EXCEPT ![2] = -delta_v]
      [] key = "right" -> [v_gimbal EXCEPT ![2] = delta_v]
      [] OTHER -> v_gimbal

\* The assignment chain of on_press (lines 84-99): the new v_gimbal
PressVGimbal(key) ==
    CASE key = "up" -> [v_gimbal EXCEPT ![1] = delta_d]
      [] key = "down" -> [v_gimbal EXCEPT ![1] = -delta_d]
      [] key = "left" -> [v_gimbal EXCEPT ![2] = -delta_d]
      [] key = "right" -> [v_gimbal EXCEPT ![2] = delta_d]
      [] OTHER -> v_gimbal

\* ReleaseV as it would be if only the forward key zeroed x
ReleaseV_forwardonly(key) ==
    IF key \in {"w"} THEN [v EXCEPT ![1] = 0]
    ELSE IF key \in {"a", "d"} THEN [v EXCEPT ![2] = 0]
    ELSE v

\* ReleaseV as it would be if a release of a movement key zeroed both axes
ReleaseV_zeroall(key) ==
    IF key \in ChassisKeys THEN <<0, 0>> ELSE v

\* The assignment chain of on_release (lines 121-128): the new v
ReleaseV(key) ==
    IF key \in {"w", "s"} THEN [v EXCEPT ![1] = 0]
    ELSE IF key \in {"a", "d"} THEN [v EXCEPT ![2] = 0]
    ELSE v

\* The assignment chain of on_release (lines 121-128): the new v_gimbal
ReleaseVGimbal(key) ==
    IF key \in ChassisKeys THEN v_gimbal
    ELSE IF key \in {"up", "down"} THEN [v_gimbal EXCEPT ![1] = 0]
    ELSE IF key \in {"left", "right"} THEN [v_gimbal EXCEPT ![2] = 0]
    ELSE v_gimbal

\* send_command as it would be if previous_v were not stored
send_command_nostore(nv, nvg, pv, pvg, fail) ==
    LET cdiff == nv # pv
        craise == cdiff /\ fail = "chassis_speed"
        gdiff == ~craise /\ nvg # pvg
        graise == gdiff /\ fail = "gimbal_speed"
    IN  [previous_v |-> pv,
         previous_v_gimbal |-> IF gdiff THEN nvg ELSE pvg,
         calls |-> (IF cdiff THEN <<chassis_speed(nv[1], nv[2], 0)>> ELSE <<>>)
                   \o (IF gdiff THEN <<gimbal_speed(nvg[1], nvg[2])>> ELSE <<>>),
         raised |-> craise \/ graise]

\* send_command as it would be without the comparison of the chassis pair
send_command_nodetect(nv, nvg, pv, pvg, fail) ==
    LET craise == fail = "chassis_speed"
        gdiff == ~craise /\ nvg # pvg
        graise == gdiff /\ fail = "gimbal_speed"
    IN  [previous_v |-> nv,
         previous_v_gimbal |-> IF gdiff THEN nvg ELSE pvg,
         calls |-> <<chassis_speed(nv[1], nv[2], 0)>>
                   \o (IF gdiff THEN <<gimbal_speed(nvg[1], nvg[2])>> ELSE <<>>),
         raised |-> craise \/ graise]

\* send_command as it would be if the gimbal pair were handled first
send_command_gimbalfirst(nv, nvg, pv, pvg, fail) ==
    LET gdiff == nvg # pvg
        graise == gdiff /\ fail = "gimbal_speed"
        cdiff == ~graise /\ nv # pv
        craise == cdiff /\ fail = "chassis_speed"
    IN  [previous_v |-> IF cdiff THEN nv ELSE pv,
         previous_v_gimbal |-> IF gdiff THEN nvg ELSE pvg,
         calls |-> (IF gdiff THEN <<gimbal_speed(nvg[1], nvg[2])>> ELSE <<>>)
                   \o (IF cdiff THEN <<chassis_speed(nv[1], nv[2], 0)>> ELSE <<>>),
         raised |-> craise \/ graise]

\* send_command, called with v = nv, v_gimbal = nvg, previous_v = pv and
\* previous_v_gimbal = pvg; fail names the Commander call that raises.
\* The previous vector is stored before the call is made, and a raising
\* chassis call leaves the gimbal pair uncompared.
send_command(nv, nvg, pv, pvg, fail) ==
    LET cdiff == nv # pv
        craise == cdiff /\ fail = "chassis_speed"
        gdiff == ~craise /\ nvg # pvg
        graise == gdiff /\ fail = "gimbal_speed"
    IN  [previous_v |-> IF cdiff THEN nv ELSE pv,
         previous_v_gimbal |-> IF gdiff THEN nvg ELSE pvg,
         calls |-> (IF cdiff THEN <<chassis_speed(nv[1], nv[2], 0)>> ELSE <<>>)
                   \o (IF gdiff THEN <<gimbal_speed(nvg[1], nvg[2])>> ELSE <<>>),
         raised |-> craise \/ graise]

\* The last call of calls with operation op, or old when there is none
LastOf(calls, op, old) ==
    LET idx == {i \in 1..Len(calls) : calls[i].op = op}
    IN  IF idx = {} THEN old
        ELSE calls[CHOOSE i \in idx : \A j \in idx : j <= i]

\* SendStep as it would be if the handler's return value were dropped
SendStep_noreturn(nv, nvg, fail, after) ==
    LET r == send_command(nv, nvg, previous_v, previous_v_gimbal, fail)
    IN  /\ v' = nv
        /\ v_gimbal' = nvg
        /\ previous_v' = r.previous_v
        /\ previous_v_gimbal' = r.previous_v_gimbal
        /\ sent' = r.calls
        /\ lastChassis' = LastOf(r.calls, "chassis_speed", lastChassis)
        /\ wireChassis' = LastOf(r.calls, "chassis_speed", wireChassis)
        /\ lastGimbal' = LastOf(r.calls, "gimbal_speed", lastGimbal)
        /\ listener' = IF r.raised THEN "raised" ELSE listener

\* A handler that reaches send_command with v = nv and v_gimbal = nvg;
\* after is the listener state when no call raises.
SendStep(nv, nvg, fail, after) ==
    LET r == send_command(nv, nvg, previous_v, previous_v_gimbal, fail)
    IN  /\ v' = nv
        /\ v_gimbal' = nvg
        /\ previous_v' = r.previous_v
        /\ previous_v_gimbal' = r.previous_v_gimbal
        /\ sent' = r.calls
        /\ lastChassis' = LastOf(r.calls, "chassis_speed", lastChassis)
        /\ wireChassis' = LastOf(r.calls, "chassis_speed", wireChassis)
        /\ lastGimbal' = LastOf(r.calls, "gimbal_speed", lastGimbal)
        /\ listener' = IF r.raised THEN "raised" ELSE after

\* PressUnderLock as it would be if the quit test did not look at ctrl_pressed
PressUnderLock_nomodifier(key, fail) ==
    /\ listener = "running"
    /\ nkeys' = nkeys + 1
    /\ UNCHANGED <<gear, delta_v, delta_d>>
    /\ UNCHANGED <<push_queue, event_queue, rtrvars>>
    /\ IF key = "ctrl" THEN
            /\ ctrl_pressed' = TRUE
            /\ sent' = <<>>
            /\ UNCHANGED <<v, previous_v, v_gimbal, previous_v_gimbal,
                           listener, lastChassis, lastGimbal, wireChassis>>
       ELSE IF key = "c" THEN
            /\ UNCHANGED ctrl_pressed
            /\ SendStep(<<0, 0>>, <<0, 0>>, fail, "stopped")
       ELSE IF key = "space" THEN
            /\ sent' = <<blaster_fire>>
            /\ listener' = IF fail = "blaster_fire" THEN "raised" ELSE listener
            /\ UNCHANGED <<v, previous_v, v_gimbal, previous_v_gimbal,
                           ctrl_pressed, lastChassis, lastGimbal, wireChassis>>
       ELSE
            /\ UNCHANGED ctrl_pressed
            /\ SendStep(PressV(key), PressVGimbal(key), fail, listener)

\* The body of on_press under self._mu (lines 69-101)
PressUnderLock(key, fail) ==
    /\ listener = "running"
    /\ nkeys' = nkeys + 1
    /\ UNCHANGED <<gear, delta_v, delta_d>>
    /\ UNCHANGED <<push_queue, event_queue, rtrvars>>
    /\ IF key = "ctrl" THEN
            /\ ctrl_pressed' = TRUE
            /\ sent' = <<>>
            /\ UNCHANGED <<v, previous_v, v_gimbal, previous_v_gimbal,
                           listener, lastChassis, lastGimbal, wireChassis>>
       ELSE IF ctrl_pressed /\ key = "c" THEN
            /\ UNCHANGED ctrl_pressed
            /\ SendStep(<<0, 0>>, <<0, 0>>, fail, "stopped")
       ELSE IF key = "space" THEN
            /\ sent' = <<blaster_fire>>
            /\ listener' = IF fail = "blaster_fire" THEN "raised" ELSE listener
            /\ UNCHANGED <<v, previous_v, v_gimbal, previous_v_gimbal,
                           ctrl_pressed, lastChassis, lastGimbal, wireChassis>>
       ELSE
            /\ UNCHANGED ctrl_pressed
            /\ SendStep(PressV(key), PressVGimbal(key), fail, listener)

\* _update_gear as it would be if delta_d were computed from the chassis unit
UpdateGear_copied(g) ==
    /\ gear' = g
    /\ delta_v' = g * UNIT_DELTA_SPEED
    /\ delta_d' = g * UNIT_DELTA_SPEED

\* Controller._update_gear
UpdateGear(g) ==
    /\ gear' = g
    /\ delta_v' = g * UNIT_DELTA_SPEED
    /\ delta_d' = g * UNIT_DELTA_DEGREE

\* ReleaseUnderLock as it would be if the release of ctrl were not recorded
ReleaseUnderLock_ctrlkept(key, fail) ==
    /\ listener = "running"
    /\ nkeys' = nkeys + 1
    /\ UNCHANGED <<push_queue, event_queue, rtrvars>>
    /\ IF key = "ctrl" THEN
            /\ ctrl_pressed' = ctrl_pressed
            /\ sent' = <<>>
            /\ UNCHANGED <<gear, delta_v, delta_d, v, previous_v, v_gimbal,
                           previous_v_gimbal, listener, lastChassis, lastGimbal,
                           wireChassis>>
       ELSE IF key \in GearKeys THEN
            /\ UpdateGear(GearOf(key))
            /\ sent' = <<>>
            /\ UNCHANGED <<v, previous_v, v_gimbal, previous_v_gimbal,
                           ctrl_pressed, listener, lastChassis, lastGimbal, wireChassis>>
       ELSE
            /\ UNCHANGED <<gear, delta_v, delta_d, ctrl_pressed>>
            /\ SendStep(ReleaseV(key), ReleaseVGimbal(key), fail, listener)

\* The body of on_release under self._mu (lines 110-130)
ReleaseUnderLock(key, fail) ==
    /\ listener = "running"
    /\ nkeys' = nkeys + 1
    /\ UNCHANGED <<push_queue, event_queue, rtrvars>>
    /\ IF key = "ctrl" THEN
            /\ ctrl_pressed' = FALSE
            /\ sent' = <<>>
            /\ UNCHANGED <<gear, delta_v, delta_d, v, previous_v, v_gimbal,
                           previous_v_gimbal, listener, lastChassis, lastGimbal,
                           wireChassis>>
       ELSE IF key \in GearKeys THEN
            /\ UpdateGear(GearOf(key))
            /\ sent' = <<>>
            /\ UNCHANGED <<v, previous_v, v_gimbal, previous_v_gimbal,
                           ctrl_pressed, listener, lastChassis, lastGimbal, wireChassis>>
       ELSE
            /\ UNCHANGED <<gear, delta_v, delta_d, ctrl_pressed>>
            /\ SendStep(ReleaseV(key), ReleaseVGimbal(key), fail, listener)

\* Unlock as it would be if the release were a statement after the body
\* instead of the exit of a with block: a raise skips it
Unlock_afterbody(raised) == IF raised THEN mu ELSE <<>>

\* The exit of "with self._mu": the lock is released whether the body
\* returned or raised
Unlock(raised) == <<>>

\* Controller.on_press: the lock is taken, the body runs, the lock is released
on_press(key, fail) ==
    /\ mu = <<>>
    /\ PressUnderLock(key, fail)
    /\ mu' = Unlock(listener' = "raised")

\* Controller.on_release: the lock is taken, the body runs, the lock is released
on_release(key, fail) ==
    /\ mu = <<>>
    /\ ReleaseUnderLock(key, fail)
    /\ mu' = Unlock(listener' = "raised")

\* The listener thread calls a handler, which enters "with self._mu"
\* (lines 68, 109); handler is <<"on_press", key>> or <<"on_release", key>>
Acquire(handler) ==
    /\ listener = "running"
    /\ mu = <<>>
    /\ mu' = handler
    /\ UNCHANGED <<ctlvars, listener, sent, lastChassis, lastGimbal, nkeys>>
    /\ UNCHANGED <<push_queue, event_queue, rtrvars, wireChassis>>

\* The handler holding the lock runs its body and leaves the with block
RunUnderLock(fail) ==
    /\ mu # <<>>
    /\ IF mu[1] = "on_press" THEN PressUnderLock(mu[2], fail)
       ELSE ReleaseUnderLock(mu[2], fail)
    /\ mu' = Unlock(listener' = "raised")

----------------------------------------------------------------------------
(* Event router *)

\* Get as it would be if the channel handed out its newest message
Get_newest(q) == IF q = <<>> THEN Empty ELSE q[Len(q)]

\* Queue.get(timeout=QUEUE_TIMEOUT): the head, or Empty once the wait is over
Get(q) == IF q = <<>> THEN Empty ELSE Head(q)

\* The queue after Queue.get
Rest(q) == IF q = <<>> THEN q ELSE Tail(q)

\* EventPart as it would be if the type test never matched
EventPart_nomatch(event, fail) ==
    IF event = Empty THEN [calls |-> <<>>, logs |-> <<>>, raised |-> FALSE]
    ELSE [calls |-> <<>>, logs |-> <<<<"event", event>>>>, raised |-> FALSE]

\* EventPart as it would be if the transport error of the zero command were
\* caught and the cycle went on
EventPart_caught(event, fail) ==
    IF event = Empty THEN [calls |-> <<>>, logs |-> <<>>, raised |-> FALSE]
    ELSE [calls |-> IF event = "ArmorHit" THEN <<chassis_speed(0, 0, 0)>> ELSE <<>>,
          logs |-> <<<<"event", event>>>>,
          raised |-> FALSE]

\* EventPart as it would be without the type test: every event stops the chassis
EventPart_anyevent(event, fail) ==
    IF event = Empty THEN [calls |-> <<>>, logs |-> <<>>, raised |-> FALSE]
    ELSE LET raise == fail = "chassis_speed"
         IN  [calls |-> <<chassis_speed(0, 0, 0)>>,
              logs |-> IF raise THEN <<>> ELSE <<<<"event", event>>>>,
              raised |-> raise]

\* The second try block of handle_event (lines 39-46) on the outcome of the
\* receive: the Commander calls, the log lines and whether a call raised
EventPart(event, fail) ==
    IF event = Empty THEN [calls |-> <<>>, logs |-> <<>>, raised |-> FALSE]
    ELSE LET hit == event = "ArmorHit"
             raise == hit /\ fail = "chassis_speed"
         IN  [calls |-> IF hit THEN <<chassis_speed(0, 0, 0)>> ELSE <<>>,
              logs |-> IF raise THEN <<>> ELSE <<<<"event", event>>>>,
              raised |-> raise]

\* The first try block of handle_event (lines 33-37): the log lines
PushPart(push) ==
    IF push = Empty THEN <<>> ELSE <<<<"push", push>>>>

\* ReceivePush as it would be with both receives in one try block: an
\* empty telemetry channel ends the cycle
ReceivePush_onetry ==
    LET push == Get(push_queue)
    IN  /\ router = "running"
        /\ rpc = "push"
        /\ push_queue' = Rest(push_queue)
        /\ polled' = <<<<"push_queue", push>>>>
        /\ logged' = PushPart(push)
        /\ rsent' = <<>>
        /\ rpc' = IF push = Empty THEN "push" ELSE "event"
        /\ UNCHANGED <<kbdvars, event_queue, router, wireChassis>>

\* handle_event, lines 33-37: a cycle begins; the receive on push_queue
\* returns the head or, the wait over, Empty; the message is logged
ReceivePush ==
    LET push == Get(push_queue)
    IN  /\ router = "running"
        /\ rpc = "push"
        /\ push_queue' = Rest(push_queue)
        /\ polled' = <<<<"push_queue", push>>>>
        /\ logged' = PushPart(push)
        /\ rsent' = <<>>
        /\ rpc' = "event"
        /\ UNCHANGED <<kbdvars, event_queue, router, wireChassis>>

\* ReceiveEvent as it would be if an ArmorHit also reset the controller's
\* record of the last chassis command
ReceiveEvent_resync(fail) ==
    LET event == Get(event_queue)
        e == EventPart(event, fail)
    IN  /\ router = "running"
        /\ rpc = "event"
        /\ event_queue' = Rest(event_queue)
        /\ polled' = Append(polled, <<"event_queue", event>>)
        /\ logged' = logged \o e.logs
        /\ rsent' = e.calls
        /\ wireChassis' = LastOf(e.calls, "chassis_speed", wireChassis)
        /\ router' = IF e.raised THEN "raised" ELSE router
        /\ rpc' = "push"
        /\ previous_v' = IF e.calls # <<>> THEN <<0, 0>> ELSE previous_v
        /\ UNCHANGED <<gear, delta_v, delta_d, v, v_gimbal, previous_v_gimbal,
                       ctrl_pressed, listener, sent, lastChassis, lastGimbal,
                       nkeys, mu, push_queue>>

\* handle_event, lines 39-46: the receive on event_queue returns the head
\* or, the wait over, Empty; an ArmorHit is answered with the zero command;
\* the event is logged; the cycle ends.  A call that raises ends the loop.
ReceiveEvent(fail) ==
    LET event == Get(event_queue)
        e == EventPart(event, fail)
    IN  /\ router = "running"
        /\ rpc = "event"
        /\ event_queue' = Rest(event_queue)
        /\ polled' = Append(polled, <<"event_queue", event>>)
        /\ logged' = logged \o e.logs
        /\ rsent' = e.calls
        /\ wireChassis' = LastOf(e.calls, "chassis_speed", wireChassis)
        /\ router' = IF e.raised THEN "raised" ELSE router
        /\ rpc' = "push"
        /\ UNCHANGED <<kbdvars, push_queue>>

\* handle_event: the next of the two receives of the poll cycle
handle_event(fail) == ReceivePush \/ ReceiveEvent(fail)

\* A producer puts only while the channel holds fewer than QUEUE_SIZE
\* messages: on a full channel it waits (or drops the message, which changes
\* nothing)
CanPut(q) == Len(q) < QUEUE_SIZE

\* rmf.PushListener puts a telemetry message
PushListener(m) ==
    /\ CanPut(push_queue)
    /\ push_queue' = Append(push_queue, m)
    /\ UNCHANGED <<kbdvars, event_queue, rtrvars, wireChassis>>

\* rmf.EventListener puts a robot event
EventListener(m) ==
    /\ CanPut(event_queue)
    /\ event_queue' = Append(event_queue, m)
    /\ UNCHANGED <<kbdvars, push_queue, rtrvars, wireChassis>>

----------------------------------------------------------------------------

Init ==
    /\ gear = 1
    /\ delta_v = UNIT_DELTA_SPEED
    /\ delta_d = UNIT_DELTA_DEGREE
    /\ v = <<0, 0>>
    /\ previous_v = <<0, 0>>
    /\ v_gimbal = <<0, 0>>
    /\ previous_v_gimbal = <<0, 0>>
    /\ ctrl_pressed = FALSE
    /\ listener = "running"
    /\ sent = <<>>
    /\ lastChassis = NoCmd
    /\ lastGimbal = NoCmd
    /\ nkeys = 0
    /\ mu = <<>>
    /\ push_queue = <<>>
    /\ event_queue = <<>>
    /\ router = "running"
    /\ rpc = "push"
    /\ polled = <<>>
    /\ logged = <<>>
    /\ rsent = <<>>
    /\ wireChassis = NoCmd
    /\ followed = 0
    /\ ahead = 0
    /\ cycles = 0
    /\ begun = 0
    /\ incycle = FALSE
    /\ during = FALSE

\* fail names a call the handler made, or no call: the choices that differ
Distinct(fail) == fail = "none" \/ \E i \in DOMAIN sent' : sent'[i].op = fail

\* A key edge delivered to the handlers of control()
KeyDown ==
    /\ \E key \in Keys, fail \in Failures : on_press(key, fail) /\ Distinct(fail)
    /\ UNCHANGED hitvars
KeyUp ==
    /\ \E key \in Keys, fail \in ReleaseFailures : on_release(key, fail) /\ Distinct(fail)
    /\ UNCHANGED hitvars
\* The worker loop around handle_event takes the next step of its cycle
Poll == (\E fail \in RouterFailures : handle_event(fail)) /\ UNCHANGED hitvars
PutPush == (\E m \in PushMsgs : PushListener(m)) /\ UNCHANGED hitvars
PutEvent == (\E m \in Events : EventListener(m)) /\ UNCHANGED hitvars

(* The keyboard controller on its own.  No action of the router or of the  *)
(* producers reads or writes a variable of the controller.                 *)
NextKeyboard ==
    \/ nkeys < MaxKeyEvents /\ KeyDown
    \/ nkeys < MaxKeyEvents /\ KeyUp

SpecKeyboard == Init /\ [][NextKeyboard]_vars

(* The event router and the producers of its two channels on their own.    *)
NextRouter ==
    \/ Poll
    \/ Len(push_queue) < MaxPending /\ PutPush
    \/ Len(event_queue) < MaxPending /\ PutEvent

SpecRouter == Init /\ [][NextRouter]_vars

(* The whole program: the controller process, the router process and the   *)
(* two listeners, interleaved.                                             *)
Next ==
    \/ nkeys < MaxProgramKeyEvents /\ KeyDown
    \/ nkeys < MaxProgramKeyEvents /\ KeyUp
    \/ Poll
    \/ Len(push_queue) < MaxJointPending /\ PutPush
    \/ Len(event_queue) < MaxJointPending /\ PutEvent

Spec == Init /\ [][Next]_vars

(* The controller next to the router while the robot reports events and   *)
(* no telemetry: the keyboard input is free, the telemetry channel stays   *)
(* empty.  Longer key sequences than in Spec fit next to the router.       *)
NextHit ==
    \/ nkeys < MaxJointKeyEvents /\ KeyDown
    \/ nkeys < MaxJointKeyEvents /\ KeyUp
    \/ Poll
    \/ Len(event_queue) < MaxJointPending /\ PutEvent

SpecHit == Init /\ [][NextHit]_vars

(* The whole program with the keyboard input fixed to one sequence of key  *)
(* edges, every Commander call returning: forward down, right down,        *)
(* forward up, right up.  nkeys is the position in the sequence.           *)
ScenarioEdges ==
    <<<<"press", "w">>, <<"press", "d">>, <<"release", "w">>, <<"release", "d">>>>

\* The listener delivers the next edge of the sequence to its handler
ScenarioStep ==
    /\ nkeys < Len(ScenarioEdges)
    /\ LET edge == ScenarioEdges[nkeys + 1]
       IN  IF edge[1] = "press" THEN on_press(edge[2], "none")
           ELSE on_release(edge[2], "none")
    /\ UNCHANGED hitvars

NextScenario ==
    \/ ScenarioStep
    \/ Poll
    \/ Len(push_queue) < MaxJointPending /\ PutPush
    \/ Len(event_queue) < MaxJointPending /\ PutEvent

SpecScenario == Init /\ [][NextScenario]_vars

(* The controller with the entry into self._mu as a step of its own, next  *)
(* to the router polling its channels: what happens while the lock is held *)
EnterPress == (\E key \in Keys : Acquire(<<"on_press", key>>)) /\ UNCHANGED hitvars
EnterRelease == (\E key \in Keys : Acquire(<<"on_release", key>>)) /\ UNCHANGED hitvars
LeaveHandler == (\E fail \in Failures : RunUnderLock(fail)) /\ UNCHANGED hitvars

NextLock ==
    \/ nkeys < MaxJointKeyEvents /\ EnterPress
    \/ nkeys < MaxJointKeyEvents /\ EnterRelease
    \/ LeaveHandler
    \/ Poll

SpecLock == Init /\ [][NextLock]_vars

(* The router and the event channel with one ArmorHit followed from the    *)
(* moment it is put to the receive that takes it.  Any ArmorHit may be     *)
(* the one followed.  Events of every kind are put while the channel is    *)
(* short, ArmorHits up to the capacity of the channel.  The worker loop    *)
(* calls handle_event again and again, each call one poll cycle; a put may *)
(* come between two calls or while a call waits on either channel.         *)

\* The event listener puts the ArmorHit that is followed
PutFollowed ==
    /\ followed = 0
    /\ cycles = 0
    /\ EventListener("ArmorHit")
    /\ followed' = Len(event_queue) + 1
    /\ ahead' = Len(event_queue)
    /\ during' = incycle
    /\ UNCHANGED <<cycles, begun, incycle>>

\* The event listener puts another ArmorHit
PutHit == EventListener("ArmorHit") /\ UNCHANGED hitvars

\* The worker loop calls handle_event: a poll cycle begins
BeginCycle ==
    /\ router = "running"
    /\ rpc = "push"
    /\ ~incycle
    /\ incycle' = TRUE
    /\ begun' = IF followed > 0 THEN begun + 1 ELSE begun
    /\ UNCHANGED <<kbdvars, push_queue, event_queue, rtrvars, wireChassis>>
    /\ UNCHANGED <<followed, ahead, cycles, during>>

\* A receive of the cycle begun; the receive on event_queue ends the call,
\* and the followed ArmorHit, if in the channel, moves up by the one
\* message that receive takes
ReceiveFollowed ==
    /\ incycle
    /\ \E fail \in RouterFailures : handle_event(fail)
    /\ incycle' = (rpc = "push")
    /\ IF followed > 0 /\ rpc = "event"
       THEN followed' = followed - 1 /\ cycles' = cycles + 1
       ELSE UNCHANGED <<followed, cycles>>
    /\ UNCHANGED <<ahead, begun, during>>

\* The next step of the worker loop over handle_event
PollFollowed == BeginCycle \/ ReceiveFollowed

NextFair ==
    \/ BeginCycle
    \/ ReceiveFollowed
    \/ Len(event_queue) < MaxPending /\ PutEvent
    \/ PutHit
    \/ PutFollowed

\* The worker loop goes on while the router runs: a step of the loop that
\* can be taken is taken
RouterFairness == WF_vars(PollFollowed)

SpecFair == Init /\ [][NextFair]_vars /\ RouterFairness

----------------------------------------------------------------------------
(* Vocabulary of the properties *)

\* calls contains a call of operation op
HasOp(calls, op) == \E i \in DOMAIN calls : calls[i].op = op

\* The calls of operation op in calls, in order
OnlyOp(calls, op) == SelectSeq(calls, LAMBDA c : c.op = op)

\* The most recent handler ended because its chassis_speed call raised
ChassisRaised ==
    /\ listener = "raised"
    /\ sent # <<>>
    /\ sent[Len(sent)].op = "chassis_speed"

\* The step is on_press(key), on_release(key)
Pressed(key) == \E fail \in Failures : on_press(key, fail)
Released(key) == \E fail \in ReleaseFailures : on_release(key, fail)

\* Every step that is a step has the effect; the effect is tested first
Whenever(step, effect) == effect \/ ~step

\* The step is the receive on push_queue of a poll cycle; the step is the
\* receive on event_queue, which ends the cycle
PushStep == rpc = "push" /\ router = "running" /\ polled' # polled
EventStep == rpc = "event" /\ router = "running" /\ Len(polled') = 2

\* A key handler ran; it took a path that ends in send_command
PressSends(key) == key \notin {"ctrl", "space"}
ReleaseSends(key) == key \notin ({"ctrl"} \cup GearKeys)
SendCommandCalled ==
    \/ \E key \in Keys : PressSends(key) /\ Pressed(key)
    \/ \E key \in Keys : ReleaseSends(key) /\ Released(key)

\* send_command ran with the chassis pair as the claim C1 describes: a
\* chassis command iff v differs from previous_v at call time (v is not
\* written by send_command, so its value at call time is v'), previous_v
\* equal to v once one is issued, and none when the handler left v as it was
ChassisPairRule ==
    /\ HasOp(sent', "chassis_speed") <=> v' # previous_v
    /\ HasOp(sent', "chassis_speed") => previous_v' = v'
    /\ v' = v => ~HasOp(sent', "chassis_speed")

----------------------------------------------------------------------------
(* C1 *)

\* C1 as stated: send_command issues a chassis command iff v differs from
\* previous_v at call time and then previous_v equals v, and the same holds
\* for the gimbal pair independently of the chassis pair; the same velocity
\* twice in a row gives one command.
C1_AsStated ==
    [][Whenever(SendCommandCalled,
        /\ ChassisPairRule
        /\ HasOp(sent', "gimbal_speed") <=> v_gimbal' # previous_v_gimbal
        /\ HasOp(sent', "gimbal_speed") => previous_v_gimbal' = v_gimbal'
        /\ v_gimbal' = v_gimbal => ~HasOp(sent', "gimbal_speed"))]_vars

\* C1 amended: the chassis pair is as stated; the gimbal pair is compared
\* only when the chassis part returned, so a gimbal command is issued iff
\* v_gimbal differs from previous_v_gimbal at call time and no chassis
\* command of this call raised, and then previous_v_gimbal equals v_gimbal;
\* the same velocity twice in a row gives one command.
C1_SendOnChange ==
    [][Whenever(SendCommandCalled,
        /\ ChassisPairRule
        /\ HasOp(sent', "gimbal_speed") <=>
              (v_gimbal' # previous_v_gimbal /\ ~ChassisRaised')
        /\ HasOp(sent', "gimbal_speed") => previous_v_gimbal' = v_gimbal'
        /\ v_gimbal' = v_gimbal => ~HasOp(sent', "gimbal_speed"))]_vars

\* C1 witness: send_command issued a chassis command that raised while the
\* gimbal pair differed; previous_v was stored, the gimbal pair was not
C1_Witness ==
    /\ ChassisRaised
    /\ previous_v = v
    /\ v_gimbal # previous_v_gimbal
    /\ ~HasOp(sent, "gimbal_speed")

----------------------------------------------------------------------------
(* C2 *)

\* C2: over any sequence of key edges a chassis command the controller
\* issues differs from the chassis command it issued last, and a gimbal
\* command from its last gimbal command; one key edge issues at most one
\* command per group, and none for a group whose vector it leaves unchanged.
C2_OneCommandPerChange ==
    [][nkeys' # nkeys =>
        /\ \A i \in DOMAIN sent' : sent'[i] # lastChassis /\ sent'[i] # lastGimbal
        /\ Len(OnlyOp(sent', "chassis_speed")) <= 1
        /\ Len(OnlyOp(sent', "gimbal_speed")) <= 1
        /\ v' = v => ~HasOp(sent', "chassis_speed")
        /\ v_gimbal' = v_gimbal => ~HasOp(sent', "gimbal_speed")]_vars

\* C2 witness: a key edge (an auto-repeat press, for one) that issued no
\* command although the chassis is moving and was commanded before
C2_Witness ==
    /\ listener = "running"
    /\ nkeys >= 2
    /\ sent = <<>>
    /\ v # <<0, 0>>
    /\ lastChassis = chassis_speed(v[1], v[2], 0)

----------------------------------------------------------------------------
(* C3 *)

\* C3: immediately after on_release of an axis key the velocity component of
\* that axis is exactly 0, at every gear and whatever was pressed before;
\* either key of a pair zeroes the shared axis.
C3_ReleaseZeroesAxis ==
    [][/\ \A key \in {"w", "s"} : Whenever(Released(key), v'[1] = 0)
       /\ \A key \in {"a", "d"} : Whenever(Released(key), v'[2] = 0)
       /\ \A key \in {"up", "down"} : Whenever(Released(key), v_gimbal'[1] = 0)
       /\ \A key \in {"left", "right"} : Whenever(Released(key), v_gimbal'[2] = 0)]_vars

\* C3 witness: at a gear above 1 the latest handler, which did not end the
\* session, commanded the chassis to a stop: only a release does that
C3_Witness ==
    /\ listener = "running"
    /\ gear > 1
    /\ v = <<0, 0>>
    /\ sent = <<chassis_speed(0, 0, 0)>>

----------------------------------------------------------------------------
(* C4 *)

\* The four velocity components as one tuple: x, y, pitch, yaw
Components(cv, gv) == cv \o gv

\* The component a movement key drives and the sign the spec gives it
AxisOfKey(key) ==
    CASE key \in {"w", "s"} -> 1 [] key \in {"a", "d"} -> 2
      [] key \in {"up", "down"} -> 3 [] key \in {"left", "right"} -> 4
SignOfKey(key) == IF key \in {"w", "d", "up", "right"} THEN 1 ELSE -1
UnitOfKey(key) == IF key \in ChassisKeys THEN UNIT_DELTA_SPEED ELSE UNIT_DELTA_DEGREE

\* C4: a movement press assigns its one component to the signed speed of the
\* current gear, whatever the component held (w then s leaves x at
\* -gear * unitSpeed: no stacking), and leaves the other three components
\* unchanged; releasing w or s sets x to 0 and leaves the other three.
C4_LastPressWins ==
    [][/\ \A key \in ChassisKeys \cup GimbalKeys :
            Whenever(Pressed(key),
                LET new == Components(v', v_gimbal')
                    old == Components(v, v_gimbal)
                IN  /\ new[AxisOfKey(key)] = SignOfKey(key) * gear * UnitOfKey(key)
                    /\ \A j \in 1..4 : j # AxisOfKey(key) => new[j] = old[j])
       /\ \A key \in {"w", "s"} :
            Whenever(Released(key),
                /\ v'[1] = 0
                /\ v'[2] = v[2]
                /\ v_gimbal' = v_gimbal)]_vars

\* C4 witness: at a gear above 1 the latest handler commanded x to the
\* backward speed of the gear while y and the gimbal kept their speeds
C4_Witness ==
    /\ listener = "running"
    /\ gear > 1
    /\ v[1] = -gear * UNIT_DELTA_SPEED
    /\ v_gimbal # <<0, 0>>
    /\ sent = <<chassis_speed(v[1], v[2], 0)>>

----------------------------------------------------------------------------
(* C5 *)

SpeedsAt(g, unit) == {0, g * unit, -g * unit}

----------------------------------------------------------------------------
(* C6 *)

\* C6: releasing the digit key g sets gear, delta_v and delta_d to g,
\* g * unitSpeed and g * unitDegree, leaves the four vectors unchanged and
\* issues no command; pressing a digit key changes nothing; the next
\* movement press assigns the speed of the new gear.
C6_GearRelease ==
    [][/\ \A g \in Gears :
            Whenever(Released(<<"1", "2", "3", "4", "5">>[g]),
                /\ gear' = g
                /\ delta_v' = g * UNIT_DELTA_SPEED
                /\ delta_d' = g * UNIT_DELTA_DEGREE
                /\ UNCHANGED <<v, previous_v, v_gimbal, previous_v_gimbal>>
                /\ sent' = <<>>
                /\ UNCHANGED <<lastChassis, lastGimbal>>)
       /\ \A key \in GearKeys :
            Whenever(Pressed(key),
                /\ UNCHANGED ctlvars
                /\ sent' = <<>>
                /\ UNCHANGED <<lastChassis, lastGimbal>>)
       /\ \A key \in ChassisKeys :
            Whenever(Pressed(key),
                v'[AxisOfKey(key)] \in {gear' * UNIT_DELTA_SPEED, -gear' * UNIT_DELTA_SPEED})
       /\ \A key \in GimbalKeys :
            Whenever(Pressed(key),
                v_gimbal'[AxisOfKey(key) - 2] \in
                    {gear' * UNIT_DELTA_DEGREE, -gear' * UNIT_DELTA_DEGREE})]_vars

\* C6 witness: the gear was changed while the chassis moved at the speed of
\* gear 1; the velocity in flight kept its magnitude and nothing was sent
C6_Witness ==
    /\ listener = "running"
    /\ gear > 1
    /\ delta_v = gear * UNIT_DELTA_SPEED
    /\ v[1] = UNIT_DELTA_SPEED
    /\ previous_v = v
    /\ sent = <<>>

----------------------------------------------------------------------------
(* C7 *)

\* C7: a poll cycle that receives an ArmorHit from the event channel issues
\* chassis_speed(0, 0, 0) in that cycle, whatever the controller's state is
\* and whatever the telemetry receive of the cycle returned.
C7_ArmorHitStops ==
    [][(EventStep /\ Get(event_queue) = "ArmorHit") =>
        /\ polled'[1] = polled[1]
        /\ polled'[2] = <<"event_queue", "ArmorHit">>
        /\ rsent' = <<chassis_speed(0, 0, 0)>>
        /\ UNCHANGED kbdvars]_vars

\* C7 witness: the cycle received an ArmorHit and issued the zero command
\* while the controller holds nonzero chassis and previous-chassis vectors
C7_Witness ==
    /\ Len(polled) = 2
    /\ polled[2] = <<"event_queue", "ArmorHit">>
    /\ rsent = <<chassis_speed(0, 0, 0)>>
    /\ v # <<0, 0>>
    /\ previous_v = v

----------------------------------------------------------------------------
(* C8 *)

\* The step is on_press of 'c' with ctrl held: the quit chord
QuitChord == ctrl_pressed /\ Pressed("c")

\* C8 as stated, for the handlers none of whose calls raises: the quit chord
\* observed while a velocity component is nonzero sends exactly
\* chassis (0,0,0) and gimbal (0,0), and the listener stops
C8_AsStated ==
    [][Whenever(/\ QuitChord
                /\ v # <<0, 0>> \/ v_gimbal # <<0, 0>>
                /\ listener' # "raised",
        /\ sent' = <<chassis_speed(0, 0, 0), gimbal_speed(0, 0)>>
        /\ listener' = "stopped")]_vars

\* The zero commands of the groups whose vector is nonzero, chassis first
ZeroCommands(cv, gv) ==
    (IF cv # <<0, 0>> THEN <<chassis_speed(0, 0, 0)>> ELSE <<>>)
    \o (IF gv # <<0, 0>> THEN <<gimbal_speed(0, 0)>> ELSE <<>>)

\* s is a prefix of t
IsPrefix(s, t) == Len(s) <= Len(t) /\ s = SubSeq(t, 1, Len(s))

\* C8 amended: the quit chord observed while a velocity component is nonzero
\* zeroes both vectors and sends a zero command to exactly the groups whose
\* vector was nonzero, chassis (0,0,0) before gimbal (0,0); then the listener
\* stops, and the last command the controller ever sent to a group, if it
\* sent one, is zero.  If one of these calls raises, it is the last call and
\* the listener ends raising.
C8_QuitZeroes ==
    [][Whenever(QuitChord /\ (v # <<0, 0>> \/ v_gimbal # <<0, 0>>),
        /\ v' = <<0, 0>>
        /\ v_gimbal' = <<0, 0>>
        /\ sent' # <<>>
        /\ IF listener' = "stopped"
           THEN /\ sent' = ZeroCommands(v, v_gimbal)
                /\ lastChassis' \in {NoCmd, chassis_speed(0, 0, 0)}
                /\ lastGimbal' \in {NoCmd, gimbal_speed(0, 0)}
           ELSE /\ listener' = "raised"
                /\ IsPrefix(sent', ZeroCommands(v, v_gimbal)))]_vars

\* C8 witness: the quit chord came while only the chassis moved; one zero
\* chassis command was sent, no gimbal command, and the listener stopped
C8_Witness ==
    /\ listener = "stopped"
    /\ sent = <<chassis_speed(0, 0, 0)>>
    /\ lastGimbal = NoCmd
    /\ v = <<0, 0>>
    /\ v_gimbal = <<0, 0>>

----------------------------------------------------------------------------
(* C9 *)

\* The listener takes no key edge
NoKeyHandled == ~ENABLED KeyDown /\ ~ENABLED KeyUp

\* C9: a quit chord whose handler returns stops the listener (control()
\* returns); after that no key edge is handled, so no field of the
\* controller changes and no command is issued; and the listener is stopped
\* by no step other than the quit chord.  (A handler that raises ends the
\* listener with the error instead: control() raises, it does not return.)
C9_QuitIsOnlyStop ==
    /\ [](listener = "stopped" => NoKeyHandled)
    /\ [][/\ Whenever(QuitChord /\ listener' # "raised", listener' = "stopped")
          /\ listener = "stopped" => UNCHANGED kbdvars
          /\ Whenever(listener # "stopped" /\ listener' = "stopped", QuitChord)]_vars

\* C9 witness: the listener has stopped on a quit chord that had commands to send
C9_Witness ==
    /\ listener = "stopped"
    /\ ctrl_pressed
    /\ sent # <<>>
    /\ nkeys < MaxKeyEvents

----------------------------------------------------------------------------
(* C10 *)

\* The receive of this step on channel q returned Empty and left q empty,
\* or returned the head of q and took it from q
Received(q, qnext, got) ==
    IF q = <<>> THEN got = Empty /\ qnext = <<>>
    ELSE got = Head(q) /\ qnext = Tail(q)

\* C10: the next receive of a poll cycle can always be run (none blocks),
\* so every cycle ends; a cycle makes exactly one receive attempt on the
\* telemetry channel and then exactly one on the event channel, whatever
\* the first returned; a receive on an empty channel yields Empty and leaves
\* the channel empty, a receive on a non-empty one takes its head; a cycle
\* whose two receives yield Empty logs nothing and issues nothing.
C10_PollNeverBlocks ==
    /\ [](router = "running" => ENABLED Poll)
    /\ [](rpc = "event" => (Len(polled) = 1 /\ polled[1][1] = "push_queue"))
    /\ [][/\ (rpc = "push" /\ Poll) =>
                /\ rpc' = "event"
                /\ Len(polled') = 1
                /\ polled'[1][1] = "push_queue"
                /\ Received(push_queue, push_queue', polled'[1][2])
                /\ UNCHANGED event_queue
          /\ (rpc = "event" /\ Poll) =>
                /\ rpc' = "push"
                /\ Len(polled') = 2
                /\ polled'[1] = polled[1]
                /\ polled'[2][1] = "event_queue"
                /\ Received(event_queue, event_queue', polled'[2][2])
                /\ UNCHANGED push_queue
                /\ (polled[1][2] = Empty /\ event_queue = <<>>) =>
                        (logged' = <<>> /\ rsent' = <<>> /\ router' = "running")]_vars

\* C10 witness: a cycle found the telemetry channel empty and still received
\* an event from the event channel
C10_Witness ==
    /\ Len(polled) = 2
    /\ polled[1] = <<"push_queue", Empty>>
    /\ polled[2][1] = "event_queue"
    /\ polled[2][2] # Empty

----------------------------------------------------------------------------
(* C11 *)

\* A key edge the handlers name in no branch: "x" stands for every key that
\* is neither a movement, gimbal, modifier, fire nor gear key; "c" is such a
\* key on release, and on press while ctrl is not held
IgnoredEdge ==
    \/ Pressed("x")
    \/ Released("x")
    \/ Released("c")
    \/ ~ctrl_pressed /\ Pressed("c")

\* C11: a press or a release of a key that is not a movement, gimbal,
\* modifier, fire, gear or quit-chord key ("c" without ctrl included) leaves
\* every field of the controller unchanged, issues no command and leaves the
\* listener running.
C11_UnrecognizedIgnored ==
    [][Whenever(IgnoredEdge,
        /\ sent' = <<>>
        /\ UNCHANGED <<ctlvars, listener, lastChassis, lastGimbal>>)]_vars

\* C11 witness: the chassis and the gimbal both move, and a third key edge
\* was handled with ctrl not held that issued nothing and changed nothing
C11_Witness ==
    /\ nkeys = 3
    /\ listener = "running"
    /\ ~ctrl_pressed
    /\ v = <<delta_v, 0>>
    /\ v_gimbal = <<0, delta_d>>
    /\ previous_v = v
    /\ previous_v_gimbal = v_gimbal
    /\ sent = <<>>

----------------------------------------------------------------------------
(* C12 *)

\* C12: from the initial state at gear 1, with every Commander call
\* returning, the edges forward down, right down, forward up, right up give
\* v = (0.2, 0), (0.2, 0.2), (0, 0.2), (0, 0) in turn; each of the four
\* handlers issues exactly one command, the chassis command carrying that
\* value, so four chassis commands in that order, no two in a row equal, and
\* no gimbal command.
C12_Scenario ==
    /\ nkeys \in 0..4
    /\ gear = 1
    /\ listener = "running"
    /\ lastGimbal = NoCmd
    /\ v_gimbal = <<0, 0>>
    /\ nkeys = 0 => (v = <<0, 0>> /\ sent = <<>> /\ lastChassis = NoCmd)
    /\ nkeys = 1 => (/\ v = <<UNIT_DELTA_SPEED, 0>>
                     /\ sent = <<chassis_speed(UNIT_DELTA_SPEED, 0, 0)>>)
    /\ nkeys = 2 => (/\ v = <<UNIT_DELTA_SPEED, UNIT_DELTA_SPEED>>
                     /\ sent = <<chassis_speed(UNIT_DELTA_SPEED, UNIT_DELTA_SPEED, 0)>>)
    /\ nkeys = 3 => (/\ v = <<0, UNIT_DELTA_SPEED>>
                     /\ sent = <<chassis_speed(0, UNIT_DELTA_SPEED, 0)>>)
    /\ nkeys = 4 => (/\ v = <<0, 0>>
                     /\ sent = <<chassis_speed(0, 0, 0)>>)
    /\ nkeys > 0 => lastChassis = sent[1]
    /\ previous_v = v

\* C12 witness: the sequence has run to its end; the fourth command stopped
\* the chassis
C12_Witness ==
    /\ nkeys = Len(ScenarioEdges)
    /\ v = <<0, 0>>
    /\ lastChassis = chassis_speed(0, 0, 0)
    /\ sent = <<chassis_speed(0, 0, 0)>>
    /\ lastGimbal = NoCmd

----------------------------------------------------------------------------
(* C13 *)

\* Every velocity command of the most recent handler carries the vector as
\* the handler left it: the assignment comes before the send
SentAfterAssignment ==
    \A i \in DOMAIN sent :
        /\ sent[i].op = "chassis_speed" => sent[i].args = <<v[1], v[2], 0>>
        /\ sent[i].op = "gimbal_speed" => sent[i].args = <<v_gimbal[1], v_gimbal[2]>>

\* C13: the fields of the controller change and commands are issued only in
\* a step of a handler that holds self._mu; while one handler holds it no
\* other handler is entered; a command carries the vector the handler has
\* assigned before sending; the handler's exit releases the lock on every
\* path (early return, quit chord, raised command error), so a listener
\* that stopped or raised leaves it free; and the poll cycle with its
\* blocking receives runs whether or not the lock is held and never
\* touches it.
C13_LockDiscipline ==
    /\ [](mu # <<>> => (~ENABLED EnterPress /\ ~ENABLED EnterRelease))
    /\ [](listener # "running" => mu = <<>>)
    /\ [](router = "running" => ENABLED Poll)
    /\ []SentAfterAssignment
    /\ [][/\ (\/ ctlvars' # ctlvars
              \/ sent' # sent
              \/ listener' # listener
              \/ nkeys' # nkeys) => (mu # <<>> /\ mu' = <<>>)
          /\ mu' # mu => UNCHANGED <<push_queue, event_queue, rtrvars>>
          /\ rtrvars' # rtrvars => UNCHANGED mu]_vars

\* C13 witness: a handler returned early (ctrl down) and released the lock,
\* the next handler holds it, and the router has run a poll cycle
C13_Witness ==
    /\ mu = <<"on_press", "w">>
    /\ nkeys = 1
    /\ ctrl_pressed
    /\ polled # <<>>
    /\ v = <<0, 0>>

----------------------------------------------------------------------------
(* C14 *)

\* The poll cycle receives an ArmorHit and its zero command raises
HitRaises ==
    /\ Get(event_queue) = "ArmorHit"
    /\ ReceiveEvent("chassis_speed")

\* C14: a zero command that raises inside the router ends the router loop
\* for good (no later cycle, no retry) and changes nothing of the keyboard
\* controller, which still takes key edges and can still issue a command;
\* a command that raises inside a key handler ends the listener and changes
\* nothing of the router or of its channels, and the router can still poll.
C14_FailureDomains ==
    /\ [](router = "raised" => ~ENABLED Poll)
    /\ []((router = "raised" /\ listener = "running") =>
            /\ ENABLED KeyDown
            /\ ENABLED KeyUp
            /\ ENABLED (Pressed("w") /\ sent' = <<chassis_speed(delta_v, v[2], 0)>>)
                \/ v[1] = delta_v)
    /\ []((listener = "raised" /\ router = "running") => ENABLED Poll)
    /\ [][/\ Whenever(HitRaises,
                /\ router' = "raised"
                /\ rsent' = <<chassis_speed(0, 0, 0)>>
                /\ UNCHANGED kbdvars)
          /\ (router # "raised" /\ router' = "raised") => UNCHANGED kbdvars
          /\ router = "raised" => UNCHANGED rtrvars
          /\ (listener # "raised" /\ listener' = "raised") =>
                UNCHANGED <<push_queue, event_queue, rtrvars>>
          /\ listener = "raised" => UNCHANGED kbdvars]_vars

\* C14 witness: the router has ended on a raising zero command, and the
\* keyboard controller is alive, has handled key edges and has the chassis
\* moving on its last command
C14_Witness ==
    /\ router = "raised"
    /\ rsent = <<chassis_speed(0, 0, 0)>>
    /\ listener = "running"
    /\ nkeys = MaxProgramKeyEvents
    /\ sent # <<>>
    /\ lastChassis = chassis_speed(v[1], v[2], 0)
    /\ v # <<0, 0>>

----------------------------------------------------------------------------
(* C15 *)

\* The last chassis command on the wire is the router's stop while the
\* controller still records a nonzero vector as sent
StoppedByHit ==
    /\ wireChassis = chassis_speed(0, 0, 0)
    /\ previous_v # <<0, 0>>

\* C15: a poll cycle that receives an ArmorHit issues the zero chassis
\* command and leaves gear, v, previous_v, v_gimbal, previous_v_gimbal and
\* ctrl_pressed unchanged, as it leaves the lock and the rest of the
\* controller.  Once the robot is so stopped with previous_v nonzero, a key
\* handler that leaves v as it was (the repeated press of a movement key
\* still held) issues no chassis command, and the stop stays the last
\* chassis command on the wire; such a press is possible.
C15_HitBypassesState ==
    /\ []((StoppedByHit /\ listener = "running" /\ v[1] = delta_v) =>
            ENABLED (/\ Pressed("w")
                     /\ sent' = <<>>
                     /\ wireChassis' = chassis_speed(0, 0, 0)))
    /\ [][/\ (EventStep /\ Get(event_queue) = "ArmorHit") =>
                /\ HasOp(rsent', "chassis_speed")
                /\ wireChassis' = chassis_speed(0, 0, 0)
                /\ UNCHANGED <<ctlvars, mu>>
                /\ UNCHANGED kbdvars
          /\ PushStep => UNCHANGED <<kbdvars, wireChassis>>
          /\ (StoppedByHit /\ nkeys' # nkeys /\ v' = v) =>
                /\ ~HasOp(sent', "chassis_speed")
                /\ previous_v' = previous_v
                /\ wireChassis' = chassis_speed(0, 0, 0)]_vars

\* C15 witness: forward is held at gear 1, an ArmorHit has stopped the robot
\* after the controller's command, the controller still records (0.2, 0) as
\* sent, and the listener is alive to take the repeated press
C15_Witness ==
    /\ StoppedByHit
    /\ rsent = <<chassis_speed(0, 0, 0)>>
    /\ nkeys = 1
    /\ listener = "running"
    /\ v = <<UNIT_DELTA_SPEED, 0>>
    /\ previous_v = v
    /\ lastChassis = chassis_speed(UNIT_DELTA_SPEED, 0, 0)

----------------------------------------------------------------------------
(* C16 *)

\* The handler left both vectors, both records of the last command, the
\* gear with its steps and the two histories of velocity commands alone
VelocityUntouched ==
    UNCHANGED <<gear, delta_v, delta_d, v, previous_v, v_gimbal,
                previous_v_gimbal, lastChassis, lastGimbal>>

\* C16: a press of space calls blaster_fire exactly once and nothing else;
\* a press of ctrl sets ctrl_pressed, a release of ctrl clears it, and
\* neither issues a call; a release of space issues no call; in all four
\* the vectors, the previous vectors and the gear are unchanged and no
\* chassis or gimbal command is issued, and apart from ctrl_pressed on the
\* ctrl edges no field changes.
C16_FireAndModifier ==
    [][/\ Whenever(Pressed("space"),
            /\ sent' = <<blaster_fire>>
            /\ VelocityUntouched
            /\ UNCHANGED ctrl_pressed)
       /\ Whenever(Pressed("ctrl"),
            /\ ctrl_pressed'
            /\ sent' = <<>>
            /\ VelocityUntouched)
       /\ Whenever(Released("ctrl"),
            /\ ~ctrl_pressed'
            /\ sent' = <<>>
            /\ VelocityUntouched)
       /\ Whenever(Released("space"),
            /\ sent' = <<>>
            /\ VelocityUntouched
            /\ UNCHANGED ctrl_pressed)]_vars

\* C16 witness: the blaster was fired with ctrl held while the chassis and
\* the gimbal moved; both vectors and their records are as they were
C16_Witness ==
    /\ sent = <<blaster_fire>>
    /\ ctrl_pressed
    /\ listener = "running"
    /\ v # <<0, 0>>
    /\ v_gimbal # <<0, 0>>
    /\ previous_v = v
    /\ previous_v_gimbal = v_gimbal
    /\ lastChassis = chassis_speed(v[1], v[2], 0)
    /\ lastGimbal = gimbal_speed(v_gimbal[1], v_gimbal[2])

----------------------------------------------------------------------------
(* C17 *)

\* What the receive of this step returned: the first receive of the cycle
\* in a PushStep, the second in an EventStep
PushReceived == polled'[1][2]
EventReceived == polled'[2][2]

\* The receive on the telemetry channel issues no command and changes
\* nothing but the channel and the router's place in its cycle
PushChangesNothing ==
    /\ rsent' = <<>>
    /\ UNCHANGED <<kbdvars, event_queue, router, wireChassis>>

\* The receive on the event channel issues a command exactly for an
\* ArmorHit, the zero chassis command, whatever the telemetry receive of
\* the cycle returned; another event leaves the router running; no event
\* changes the controller
CommandOnlyForHit ==
    /\ rsent' = IF EventReceived = "ArmorHit" THEN <<chassis_speed(0, 0, 0)>> ELSE <<>>
    /\ EventReceived # "ArmorHit" => (router' = router /\ wireChassis' = wireChassis)
    /\ UNCHANGED <<kbdvars, push_queue>>

\* The log of the cycle after its first receive
PushLogged ==
    logged' = IF PushReceived = Empty THEN <<>> ELSE <<<<"push", PushReceived>>>>

\* C17 as stated: the router issues a command only for an ArmorHit, a
\* telemetry message or another event causes no command and no change of
\* state, and every message a poll cycle receives is logged.
C17_AsStated ==
    [][/\ PushStep => (PushChangesNothing /\ PushLogged)
       /\ EventStep =>
            /\ CommandOnlyForHit
            /\ logged' = logged \o (IF EventReceived = Empty THEN <<>>
                                    ELSE <<<<"event", EventReceived>>>>)]_vars

\* C17 amended: the router issues a command only for an ArmorHit, also in a
\* cycle that received telemetry; a telemetry message or another event
\* causes no command and no change of state; a telemetry message received
\* is logged, and an event received is logged once its handling returned:
\* an ArmorHit whose zero command raised is not logged.
C17_CommandOnlyForHit ==
    [][/\ PushStep => (PushChangesNothing /\ PushLogged)
       /\ EventStep =>
            /\ CommandOnlyForHit
            /\ logged' = logged \o (IF EventReceived = Empty \/ router' = "raised"
                                    THEN <<>>
                                    ELSE <<<<"event", EventReceived>>>>)
            /\ router' = "raised" => EventReceived = "ArmorHit"]_vars

\* C17 witness: one cycle received a telemetry message and an ArmorHit,
\* logged both and issued the zero command
C17_Witness ==
    /\ polled = <<<<"push_queue", "push">>, <<"event_queue", "ArmorHit">>>>
    /\ logged = <<<<"push", "push">>, <<"event", "ArmorHit">>>>
    /\ rsent = <<chassis_speed(0, 0, 0)>>
    /\ router = "running"

----------------------------------------------------------------------------
(* C18 *)

\* C18: between handlers (the lock is free) and as long as no command has
\* raised, previous_v equals v and previous_v_gimbal equals v_gimbal, also
\* after the handlers that return before send_command (ctrl, space, gear
\* keys); so a call of send_command at that point would issue no command
\* and store nothing new.
C18_PreviousEqualsCurrent ==
    (mu = <<>> /\ listener # "raised") =>
        /\ previous_v = v
        /\ previous_v_gimbal = v_gimbal
        /\ LET r == send_command(v, v_gimbal, previous_v, previous_v_gimbal, "none")
           IN  /\ r.calls = <<>>
               /\ r.previous_v = previous_v
               /\ r.previous_v_gimbal = previous_v_gimbal

\* C18 witness: with the chassis and the gimbal moving, a ctrl press and a
\* gear release returned early; the records still equal the vectors
C18_Witness ==
    /\ nkeys = 4
    /\ ctrl_pressed
    /\ gear = 3
    /\ sent = <<>>
    /\ listener = "running"
    /\ v # <<0, 0>>
    /\ v_gimbal # <<0, 0>>
    /\ previous_v = v
    /\ previous_v_gimbal = v_gimbal

----------------------------------------------------------------------------
(* C20 *)

\* The commands send_command issues for the two vectors when no call raises
CallsFor(nv, nvg) ==
    send_command(nv, nvg, previous_v, previous_v_gimbal, "none").calls

\* C20: ctrl_pressed is set by a press of ctrl, cleared by a release of
\* ctrl and changed by no other key edge, so it tells whether the most
\* recent ctrl edge was a press.  A press of 'c' while it is false ends
\* nothing and zeroes nothing; a press of 'c' while it is true ends the
\* listener with both vectors zero, whatever the vectors were.  A press or
\* a release of a movement or gimbal key and a press of space have an
\* effect in which ctrl_pressed plays no part: the same vectors and the
\* same calls with ctrl held as without.
C20_ChordNeedsModifier ==
    [][/\ Whenever(Pressed("ctrl"), ctrl_pressed')
       /\ Whenever(Released("ctrl"), ~ctrl_pressed')
       /\ Whenever(~ctrl_pressed /\ Pressed("c"),
            /\ listener' = "running"
            /\ sent' = <<>>
            /\ UNCHANGED ctlvars)
       /\ Whenever(ctrl_pressed /\ Pressed("c"),
            /\ listener' # "running"
            /\ v' = <<0, 0>>
            /\ v_gimbal' = <<0, 0>>
            /\ ctrl_pressed')
       /\ \A key \in ChassisKeys \cup GimbalKeys :
            /\ Whenever(Pressed(key),
                    /\ UNCHANGED ctrl_pressed
                    /\ v' = PressV(key)
                    /\ v_gimbal' = PressVGimbal(key)
                    /\ \/ sent' = CallsFor(PressV(key), PressVGimbal(key))
                       \/ listener' = "raised")
            /\ Whenever(Released(key),
                    /\ UNCHANGED ctrl_pressed
                    /\ v' = ReleaseV(key)
                    /\ v_gimbal' = ReleaseVGimbal(key)
                    /\ \/ sent' = CallsFor(ReleaseV(key), ReleaseVGimbal(key))
                       \/ listener' = "raised")
       /\ Whenever(Pressed("space"),
            /\ sent' = <<blaster_fire>>
            /\ UNCHANGED ctlvars)
       /\ (ctrl_pressed' # ctrl_pressed) => (Pressed("ctrl") \/ Released("ctrl"))]_vars

\* C20 witness: the quit chord came with ctrl held while the chassis and the
\* gimbal both moved: both zero commands went out and the listener stopped
C20_Witness ==
    /\ listener = "stopped"
    /\ ctrl_pressed
    /\ nkeys = 4
    /\ sent = <<chassis_speed(0, 0, 0), gimbal_speed(0, 0)>>
    /\ v = <<0, 0>>
    /\ v_gimbal = <<0, 0>>

----------------------------------------------------------------------------
(* C19 *)

\* An ArmorHit is in the event channel and followed; it has been received;
\* it is in the channel of a router that has terminated
HitFollowed == followed > 0
HitServed == followed = 0 /\ cycles > 0
HitStranded == followed > 0 /\ router = "raised"

\* The event channel holds at most QUEUE_SIZE messages; the followed
\* ArmorHit stands where the receives on the channel have moved it, one
\* place per receive from the place ahead + 1 where it was put; once
\* received it was received by receive number ahead + 1
ChannelInvariant ==
    /\ Len(event_queue) <= QUEUE_SIZE
    /\ HitFollowed =>
            /\ followed <= Len(event_queue)
            /\ event_queue[followed] = "ArmorHit"
            /\ followed + cycles = ahead + 1
    /\ HitServed => cycles = ahead + 1

\* A poll cycle takes the head of the event channel and nothing more, and
\* issues the zero chassis command, once, exactly when that head is an
\* ArmorHit; the followed ArmorHit at the head is received by this cycle;
\* every other step leaves the channel as it is or adds one message at
\* its end
ChannelStep ==
    IF EventStep
    THEN /\ event_queue' = Rest(event_queue)
         /\ Len(event_queue') >= Len(event_queue) - 1
         /\ EventReceived = Get(event_queue)
         /\ EventReceived = IF event_queue = <<>> THEN Empty ELSE Head(event_queue)
         /\ rsent' = IF EventReceived = "ArmorHit" THEN <<chassis_speed(0, 0, 0)>> ELSE <<>>
         /\ followed = 1 => (rsent' = <<chassis_speed(0, 0, 0)>> /\ HitServed')
    ELSE \/ event_queue' = event_queue
         \/ /\ Len(event_queue') = Len(event_queue) + 1
            /\ SubSeq(event_queue', 1, Len(event_queue)) = event_queue

\* The router terminates only in the receive of an ArmorHit, after issuing
\* the zero command (which raised); a terminated router stays terminated
\* and the followed ArmorHit in its channel stays there
RouterEnds ==
    /\ (router' # router) =>
            /\ EventStep
            /\ Get(event_queue) = "ArmorHit"
            /\ rsent' = <<chassis_speed(0, 0, 0)>>
            /\ router' = "raised"
    /\ HitStranded => HitStranded'

\* C19 as stated: a poll cycle removes at most one message from the event
\* channel, in FIFO order; the channel never holds more than QUEUE_SIZE
\* messages; an ArmorHit put behind k events is received by the (k+1)-th
\* cycle begun after it was put; with the router scheduled fairly every
\* ArmorHit put is eventually received and followed by its one zero chassis
\* command.
C19_AsStated ==
    /\ []ChannelInvariant
    /\ [](HitServed => begun = ahead + 1)
    /\ [][ChannelStep]_vars
    /\ HitFollowed ~> HitServed

\* C19 amended: a poll cycle removes at most one message from the event
\* channel, in FIFO order; the channel never holds more than QUEUE_SIZE
\* messages; an ArmorHit put behind k events is received by the (k+1)-th
\* receive on the event channel after it was put and by no other: that
\* receive is in the (k+1)-th cycle begun after the put, or, when a cycle
\* was in progress at the put and had not yet made its receive on the
\* event channel, in the (k+1)-th counting that cycle; every
\* ArmorHit received is followed by exactly one zero chassis command, and
\* the router terminates only when that command raises; with the router
\* scheduled fairly every ArmorHit put is eventually received and followed
\* by its zero command, or is left in the channel for ever by a router
\* that the raising zero command of an earlier ArmorHit terminated.
C19_HitServedInOrder ==
    /\ []ChannelInvariant
    /\ [](HitServed => begun = ahead + (IF during THEN 0 ELSE 1))
    /\ [][ChannelStep /\ RouterEnds]_vars
    /\ HitFollowed ~> (HitServed \/ HitStranded)
    /\ [](router = "raised" => rsent = <<chassis_speed(0, 0, 0)>>)

\* C19 witness: the followed ArmorHit was put as the last message of a full
\* channel, behind QUEUE_SIZE - 1 events, while a poll cycle was in
\* progress; the receive number QUEUE_SIZE on the event channel took it, in
\* the cycle QUEUE_SIZE counting the one in progress, and issued the zero
\* command
C19_Witness ==
    /\ HitServed
    /\ ahead = QUEUE_SIZE - 1
    /\ cycles = QUEUE_SIZE
    /\ during
    /\ begun = QUEUE_SIZE - 1
    /\ Len(polled) = 2
    /\ polled[2] = <<"event_queue", "ArmorHit">>
    /\ rsent = <<chassis_speed(0, 0, 0)>>
    /\ router = "running"

====
